---- MODULE Spec2Model ----
(***************************************************************************)
(* A model of package sqlf's command layer (src/commands.go): the argument *)
(* cloning, the four command builders (InsertRowf, UpdateRowf, Execf,      *)
(* Queryf), the row-bound commands (Args, Exec) and the query command with *)
(* its lazily built field mapper.                                          *)
(*                                                                         *)
(* The metadata types (TableInfo, columnInfo, TableName, ColumnList,       *)
(* Placeholder) are used by commands.go but declared elsewhere in the      *)
(* package; their operations (clone, filtered, isInput, setPosition,       *)
(* String) are modelled from the specification's data model.               *)
(***************************************************************************)
EXTENDS Integers, Sequences, FiniteSets, TLC

\* ------------------------------------------------------------------ bounds
MaxArgs == 2        \* longest argument list handed to a builder
NBuilds == 2        \* concurrent builder calls
NThreads == 2       \* concurrent callers of one query command
MaxPtrDepth == 2    \* pointer levels of a row argument

Max(S) == CHOOSE x \in S : \A y \in S : y <= x
Min(S) == CHOOSE x \in S : \A y \in S : x <= y

RECURSIVE SortedSeq(_)
SortedSeq(S) == IF S = {} THEN << >> ELSE << Min(S) >> \o SortedSeq(S \ {Min(S)})

RECURSIVE SeqsUpTo(_, _)
SeqsUpTo(S, n) ==
    IF n = 0 THEN { << >> }
    ELSE SeqsUpTo(S, n - 1) \cup
         { Append(s, x) : s \in { t \in SeqsUpTo(S, n - 1) : Len(t) = n - 1 }, x \in S }

\* ------------------------------------------------------- metadata model
\* The table users(id autoincrement, name, email) and its row struct User.
Columns ==
    << [fieldName |-> "ID",    columnName |-> "id"],
       [fieldName |-> "Name",  columnName |-> "name"],
       [fieldName |-> "Email", columnName |-> "email"] >>

ColIdx == 1 .. Len(Columns)

\* A TableInfo object is named by its owner: 0 is the metadata subsystem's
\* original, b >= 1 the clone made by builder call b.  NoTable is the nil
\* *TableInfo.
NoTable == 0 - 1

\* A columnInfo or Placeholder object, i.e. something with a position field.
\* A columnInfo is column col of table owner; a Placeholder clone is the one
\* made for argument slot of builder call owner (owner 0: the caller's own).
ColumnObj(t, c) == [owner |-> t, col |-> c, slot |-> 0]
PlaceholderObj(b, i) == [owner |-> b, col |-> 0, slot |-> i]
NoObj == [owner |-> NoTable, col |-> 0, slot |-> 0]

Objs ==
    { ColumnObj(t, c) : t \in 0 .. NBuilds, c \in ColIdx } \cup
    { PlaceholderObj(b, i) : b \in 0 .. NBuilds, i \in 1 .. MaxArgs }

\* sqlClause.isInput: the clauses whose columns are bound as arguments.
isInput(clause) == clause \in { "InsertValues", "UpdateWhere" }

\* Directive values, as the metadata subsystem hands them to a caller.
TableNameD(clause) ==
    [kind |-> "TableName", table |-> 0, clause |-> clause, filter |-> {}, ph |-> NoObj]
ColumnListD(clause, cols) ==
    [kind |-> "ColumnList", table |-> 0, clause |-> clause, filter |-> cols, ph |-> NoObj]
PlaceholderD ==
    [kind |-> "Placeholder", table |-> 0, clause |-> "", filter |-> {},
     ph |-> PlaceholderObj(0, 1)]
PlainD ==
    [kind |-> "Plain", table |-> NoTable, clause |-> "", filter |-> {}, ph |-> NoObj]

\* ColumnList.filtered: the columns of the list's table that pass its
\* filter, in table order, as pointers into that table's column slice.
filtered(cil) ==
    LET s == SortedSeq(cil.filter)
    IN  [k \in 1 .. Len(s) |-> ColumnObj(cil.table, s[k])]

\* --------------------------------------------------------- cloneArgs
\* tableClone: one clone per distinct table per call (the tableClones map).
tableClone(b, ti) == b

\* A cloneArgs that hands the caller's directives on unchanged.
cloneArgsShared(as, b) == as

cloneArgs(as, b) ==
    [i \in DOMAIN as |->
        IF as[i].kind \in { "TableName", "ColumnList" }
        THEN [as[i] EXCEPT !.table = tableClone(b, as[i].table)]
        ELSE IF as[i].kind = "Placeholder"
        THEN [as[i] EXCEPT !.table = tableClone(b, as[i].table),
                           !.ph = PlaceholderObj(b, i)]
        ELSE as[i]]

\* ----------------------------------------------------------- builders
Kinds == { "InsertRowf", "UpdateRowf", "Execf", "Queryf" }

\* The clause a row builder takes its table from.
TableClause(kind) ==
    IF kind = "InsertRowf" THEN "InsertInto"
    ELSE IF kind = "UpdateRowf" THEN "UpdateTable" ELSE "none"

\* cmd.table after the scan loop: the last TableName of the builder's clause.
ScanTable(kind, as) ==
    LET S == { i \in DOMAIN as : /\ as[i].kind = "TableName"
                                 /\ as[i].clause = TableClause(kind) }
    IN  IF S = {} THEN NoTable ELSE as[Max(S)].table

\* The inputs after the scan loop, in accumulation order.
RECURSIVE ScanInputs(_, _)
ScanInputs(kind, as) ==
    IF as = << >> THEN << >>
    ELSE LET a == Head(as)
             rest == ScanInputs(kind, Tail(as))
         IN  IF a.kind = "ColumnList"
             THEN (IF isInput(a.clause) THEN filtered(a) \o rest ELSE rest)
             ELSE IF kind = "Execf" /\ a.kind = "Placeholder"
             THEN << a.ph >> \o rest
             ELSE rest

\* Queryf's output columns after the scan loop.
RECURSIVE ScanColumns(_)
ScanColumns(as) ==
    IF as = << >> THEN << >>
    ELSE LET a == Head(as)
         IN  IF a.kind = "ColumnList" /\ a.clause = "SelectColumns"
             THEN filtered(a) \o ScanColumns(Tail(as))
             ELSE ScanColumns(Tail(as))

\* for i, ci := range inputs { ci.setPosition(i + 1) }
RECURSIVE setPositions(_, _, _)
setPositions(pos, inputs, i) ==
    IF i > Len(inputs) THEN pos
    ELSE setPositions([pos EXCEPT ![inputs[i]] = i], inputs, i + 1)

\* The ghost record of who wrote each position field last.
RECURSIVE setWriters(_, _, _, _)
setWriters(w, inputs, i, b) ==
    IF i > Len(inputs) THEN w
    ELSE setWriters([w EXCEPT ![inputs[i]] = b], inputs, i + 1, b)

\* A directive's String(): the table's name, the column list with the
\* placeholder position of each input column, or the placeholder.
Render(a, pos) ==
    [kind |-> a.kind,
     clause |-> a.clause,
     text |-> "",
     cols |-> [k \in 1 .. Len(filtered(a)) |->
                 [name |-> Columns[filtered(a)[k].col].columnName,
                  pos |-> IF isInput(a.clause) THEN pos[filtered(a)[k]] ELSE 0]],
     ph |-> IF a.kind = "Placeholder" THEN pos[a.ph] ELSE 0]

\* fmt.Sprintf(format, args...): the text is the format with each
\* directive's rendering substituted, so it is named by the renderings.
Sprintf(as, pos) == [i \in DOMAIN as |-> Render(as[i], pos)]

\* The objects whose position Sprintf reads.
ReadBy(as) ==
    UNION { IF as[i].kind = "Placeholder" THEN { as[i].ph }
            ELSE IF as[i].kind = "ColumnList" /\ isInput(as[i].clause)
            THEN { filtered(as[i])[k] : k \in 1 .. Len(filtered(as[i])) }
            ELSE {} : i \in DOMAIN as }

ZeroPos == [o \in Objs |-> 0]

\* A whole builder call b run on its own.
Build(kind, as, b) ==
    LET as2 == cloneArgs(as, b)
        inputs == ScanInputs(kind, as2)
        pos == setPositions(ZeroPos, inputs, 1)
    IN  [kind |-> kind,
         command |-> Sprintf(as2, pos),
         table |-> ScanTable(kind, as2),
         inputs |-> inputs,
         columns |-> IF kind = "Queryf" THEN ScanColumns(as2) ELSE << >>]

\* ------------------------------------------------------------- state
VARIABLES
    args,        \* the directives the caller passes to the builder(s)
    position,    \* the position field of every columnInfo / Placeholder
    writer,      \* ghost: the builder call that last wrote each position
    bpc,         \* builder calls: where each one is
    bkind,       \* builder calls: which builder
    bargs,       \* builder calls: the local args after cloneArgs
    bcommand,    \* builder calls: cmd.command
    bobserved,   \* ghost: the writers of the positions Sprintf read
    rcmd,        \* the row command under execution
    autoCol,     \* the table's auto-increment column (0: none)
    fieldKind,   \* the Go kind of the row struct's auto-increment field
    rowID,       \* the row struct's auto-increment field
    last,        \* the last completed Args / Exec call on rcmd
    qcmd,        \* the query command: text, columns, inputs, mapper
    tpc,         \* query callers: the call each one is in
    constructed, \* ghost: reflectx.NewMapperFunc calls for qcmd
    qlast        \* the last completed call on qcmd

buildVars == << position, writer, bpc, bkind, bargs, bcommand, bobserved >>
rowVars == << rcmd, autoCol, fieldKind, rowID, last >>
queryVars == << qcmd, tpc, constructed, qlast >>
vars == << args, buildVars, rowVars, queryVars >>

Builds == 1 .. NBuilds
Threads == 1 .. NThreads

NoErr == [kind |-> "", name |-> ""]
Err(k, n) == [kind |-> k, name |-> n]

\* The parts of the state a specification does not use stay at these values.
NoCmd == [kind |-> "", command |-> << >>, table |-> NoTable, inputs |-> << >>,
          columns |-> << >>]
NoKey == 0 - 1
NoRow == [depth |-> 0, base |-> "", isNil |-> FALSE]
NoCall ==
    [op |-> "none", row |-> NoRow, outcome |-> "", err |-> NoErr, args |-> << >>,
     db |-> FALSE, text |-> << >>, lastId |-> FALSE, before |-> 0, key |-> NoKey,
     n |-> 0]
NoQuery ==
    [op |-> "none", outcome |-> "", err |-> NoErr, db |-> FALSE, text |-> << >>,
     query |-> << >>, nargs |-> 0, mapper |-> 0, prevErr |-> NoErr]
BuildIdle ==
    /\ position = ZeroPos
    /\ writer = ZeroPos
    /\ bpc = [b \in Builds |-> "idle"]
    /\ bkind = [b \in Builds |-> ""]
    /\ bargs = [b \in Builds |-> << >>]
    /\ bcommand = [b \in Builds |-> << >>]
    /\ bobserved = [b \in Builds |-> {}]
RowIdle ==
    /\ rcmd = NoCmd
    /\ autoCol = 1
    /\ fieldKind = "int64"
    /\ rowID = 0
    /\ last = NoCall
QueryIdle ==
    /\ qcmd = [command |-> << >>, columns |-> << >>, inputs |-> << >>, mapper |-> 0]
    /\ tpc = [t \in Threads |-> "idle"]
    /\ constructed = 0
    /\ qlast = NoQuery

\* ------------------------------------------- concurrent builder calls
\* The directives a build is given: a table reference, an input column
\* list, an output column list, a placeholder, a plain value.
BuildPool ==
    { TableNameD("InsertInto"),
      ColumnListD("InsertValues", {2, 3}),
      ColumnListD("SelectColumns", {1, 2}),
      PlaceholderD,
      PlainD }

InitBuild ==
    /\ args \in SeqsUpTo(BuildPool, MaxArgs)
    /\ BuildIdle /\ RowIdle /\ QueryIdle

\* args = cloneArgs(args), the first statement of every builder.
BuilderClone(b, kind) ==
    /\ bpc[b] = "idle"
    /\ bkind' = [bkind EXCEPT ![b] = kind]
    /\ bargs' = [bargs EXCEPT ![b] = cloneArgs(args, b)]
    /\ bpc' = [bpc EXCEPT ![b] = "cloned"]
    /\ UNCHANGED << args, position, writer, bcommand, bobserved, rowVars, queryVars >>

\* The scan loop and the setPosition loop.
BuilderPosition(b) ==
    /\ bpc[b] = "cloned"
    /\ LET inputs == ScanInputs(bkind[b], bargs[b])
       IN  /\ position' = setPositions(position, inputs, 1)
           /\ writer' = setWriters(writer, inputs, 1, b)
    /\ bpc' = [bpc EXCEPT ![b] = "positioned"]
    /\ UNCHANGED << args, bkind, bargs, bcommand, bobserved, rowVars, queryVars >>

\* cmd.command = fmt.Sprintf(format, args...)
BuilderFormat(b) ==
    /\ bpc[b] = "positioned"
    /\ bcommand' = [bcommand EXCEPT ![b] = Sprintf(bargs[b], position)]
    /\ bobserved' = [bobserved EXCEPT ![b] = { writer[o] : o \in ReadBy(bargs[b]) }]
    /\ bpc' = [bpc EXCEPT ![b] = "done"]
    /\ UNCHANGED << args, position, writer, bkind, bargs, rowVars, queryVars >>

NextBuild ==
    \/ \E b \in Builds, kind \in Kinds : BuilderClone(b, kind)
    \/ \E b \in Builds : BuilderPosition(b)
    \/ \E b \in Builds : BuilderFormat(b)

SpecBuild == InitBuild /\ [][NextBuild]_vars

BInputs(b) == ScanInputs(bkind[b], bargs[b])

\* C1: concurrent builds over the same table metadata are isolated: the
\* position fields of the caller's original metadata are never written,
\* every position a build wrote belongs to an object its own cloneArgs made,
\* and the positions a build's formatting reads were written by that build,
\* so its text is the text the same call produces when run alone.
C1_BuildsIsolated ==
    /\ \A o \in Objs : o.owner = 0 => (position[o] = 0 /\ writer[o] = 0)
    /\ \A o \in Objs : writer[o] \in { 0, o.owner }
    /\ \A b \in Builds :
         bpc[b] = "done" =>
            /\ bobserved[b] \subseteq { 0, b }
            /\ bcommand[b] = Build(bkind[b], args, b).command

\* Two builds of different kinds over the same directives, both with
\* positions assigned, one formatted while the other is still to format.
C1_Witness ==
    \E b1, b2 \in Builds :
        /\ b1 # b2
        /\ bpc[b1] = "done" /\ bpc[b2] = "positioned"
        /\ bkind[b1] # bkind[b2]
        /\ BInputs(b1) # << >> /\ BInputs(b2) # << >>
        /\ bobserved[b1] = { b1 }

\* C6: when the text is formatted, the k-th accumulated input carries
\* placeholder position k.
C6_PositionsInOrder ==
    \A b \in Builds :
        bpc[b] = "positioned" =>
            \A k \in 1 .. Len(BInputs(b)) : position[BInputs(b)[k]] = k

\* ---------------------------------------------------- row commands
\* cmd.table.rowType, and the row values a caller may pass: an untyped nil,
\* a User or some other struct, or a chain of pointers to one, any of which
\* may be nil.
RowType == "User"
Rows ==
    { [depth |-> 0, base |-> "nil", isNil |-> TRUE] } \cup
    { r \in [depth : 0 .. MaxPtrDepth, base : { "User", "Other" }, isNil : BOOLEAN] :
        r.depth = 0 => ~r.isNil }

\* The Go kinds of the auto-increment field, and the keys a driver reports.
FieldKinds == { "int8", "int64" }
Keys == { 1, 128 }

\* reflect.Value.SetInt: the field takes the value converted to its kind.
SetInt(kind, n) ==
    IF kind = "int8" THEN ((n + 128) % 256) - 128 ELSE n

\* reflectx.FieldByIndexesReadOnly(rowVal, ci.fields).Interface()
FieldValue(c, id) ==
    [field |-> Columns[c].fieldName, int |-> IF c = 1 THEN id ELSE 0]

Result(outcome, err) ==
    [outcome |-> outcome, err |-> err, args |-> << >>, db |-> FALSE,
     text |-> << >>, lastId |-> FALSE, key |-> NoKey, n |-> 0, field |-> 0]

Command(cmd) == cmd.command

\* execRowCommand.Args.  reflect.Value.Type panics on the zero Value that
\* reflect.ValueOf(nil) and Elem() of a nil pointer give.
Args(cmd, row, id) ==
    IF cmd.table = NoTable
    THEN Result("error", Err("config", "table not specified"))
    ELSE IF row.base = "nil" \/ row.isNil
    THEN Result("panic", NoErr)
    ELSE IF row.base # RowType
    THEN Result("error", Err("type", RowType))
    ELSE [Result("ok", NoErr) EXCEPT
            !.args = [k \in 1 .. Len(cmd.inputs) |-> FieldValue(cmd.inputs[k].col, id)]]

\* execRowCommand.doExec; dbo is what the driver answers.
doExec(cmd, row, id, dbo) ==
    LET a == Args(cmd, row, id)
    IN  IF a.outcome # "ok" THEN a
        ELSE IF dbo.exec = "err"
        THEN [Result("error", Err("db", "exec")) EXCEPT
                !.args = a.args, !.db = TRUE, !.text = Command(cmd)]
        ELSE [a EXCEPT !.db = TRUE, !.text = Command(cmd), !.key = dbo.key,
                       !.n = dbo.rows]

\* The table's auto-increment column, as insertRowCommand.Exec finds it in
\* cmd.table.columns (NoObj: none).
AutoInc(cmd, auto) == IF auto = 0 THEN NoObj ELSE ColumnObj(cmd.table, auto)

\* autoIncInserted: the statement sets the auto-increment column itself.
AutoIncInserted(cmd, auto) ==
    \E k \in 1 .. Len(cmd.inputs) : cmd.inputs[k] = AutoInc(cmd, auto)

\* reflectx.FieldByIndexes(reflect.ValueOf(row), ...) panics unless row is a
\* struct or a non-nil pointer to one; the field can be set through a pointer.
FieldPanics(row) == row.base = "nil" \/ row.isNil \/ row.depth >= 2
CanSet(row) == row.depth = 1

\* An Exec that reports a failed LastInsertId to its caller.
insertExecReporting(cmd, row, id, kind, auto, dbo) ==
    LET pending == auto # 0 /\ ~AutoIncInserted(cmd, auto)
        r == doExec(cmd, row, id, dbo)
        same(x) == [x EXCEPT !.field = id]
    IN  IF cmd.table = NoTable THEN same(Result("panic", NoErr))
        ELSE IF pending /\ FieldPanics(row) THEN same(Result("panic", NoErr))
        ELSE IF pending /\ ~CanSet(row)
        THEN same(Result("error", Err("config", "Cannot set auto-increment value")))
        ELSE IF r.outcome # "ok" THEN same(r)
        ELSE IF ~pending THEN same(r)
        ELSE IF dbo.key = NoKey
        THEN same([r EXCEPT !.outcome = "error", !.err = Err("db", "LastInsertId"),
                            !.lastId = TRUE])
        ELSE [r EXCEPT !.lastId = TRUE, !.field = SetInt(kind, dbo.key)]

\* insertRowCommand.Exec; the result's field is the row's auto-increment
\* field after the call.  cmd.table.columns is read before anything else, a
\* nil dereference when the command has no table.
insertExec(cmd, row, id, kind, auto, dbo) ==
    LET pending == auto # 0 /\ ~AutoIncInserted(cmd, auto)
        r == doExec(cmd, row, id, dbo)
        same(x) == [x EXCEPT !.field = id]
    IN  IF cmd.table = NoTable THEN same(Result("panic", NoErr))
        ELSE IF pending /\ FieldPanics(row) THEN same(Result("panic", NoErr))
        ELSE IF pending /\ ~CanSet(row)
        THEN same(Result("error", Err("config", "Cannot set auto-increment value")))
        ELSE IF r.outcome # "ok" THEN same(r)
        ELSE IF ~pending THEN same(r)
        ELSE IF dbo.key = NoKey THEN same([r EXCEPT !.lastId = TRUE])
        ELSE [r EXCEPT !.lastId = TRUE, !.field = SetInt(kind, dbo.key)]

\* updateRowCommand.Exec; the result's n is the row count returned.
NoRows == 0 - 1
updateExec(cmd, row, id, dbo) ==
    LET r == doExec(cmd, row, id, dbo)
    IN  IF r.outcome # "ok" THEN [r EXCEPT !.n = 0]
        ELSE IF dbo.rows = NoRows
        THEN [r EXCEPT !.outcome = "error", !.err = Err("db", "RowsAffected"), !.n = 0]
        ELSE r

\* The directives a row command is built from.
RowPool ==
    { TableNameD("InsertInto"),
      TableNameD("UpdateTable"),
      ColumnListD("InsertValues", {2, 3}),
      ColumnListD("UpdateWhere", {1, 2}) }

RowCounts == { 0, 2 }
DbAnswers == [exec : { "ok", "err" }, key : Keys \cup { NoKey }, rows : { 0 }]
DbUpdateAnswers == [exec : { "ok", "err" }, key : { NoKey }, rows : RowCounts \cup { NoRows }]

InitRow ==
    /\ args \in SeqsUpTo(RowPool, MaxArgs)
    /\ \E kind \in { "InsertRowf", "UpdateRowf" } : rcmd = Build(kind, args, 1)
    /\ autoCol \in { 0, 1 }
    /\ fieldKind \in FieldKinds
    /\ rowID = 0
    /\ last = NoCall
    /\ BuildIdle /\ QueryIdle

Called(op, row, r) ==
    [op |-> op, row |-> row, outcome |-> r.outcome, err |-> r.err, args |-> r.args,
     db |-> r.db, text |-> r.text, lastId |-> r.lastId, before |-> rowID,
     key |-> r.key, n |-> r.n]

RowArgs(row) ==
    /\ last' = Called("Args", row, Args(rcmd, row, rowID))
    /\ UNCHANGED << args, buildVars, rcmd, autoCol, fieldKind, rowID, queryVars >>

RowInsertExec(row, dbo) ==
    /\ rcmd.kind = "InsertRowf"
    /\ LET r == insertExec(rcmd, row, rowID, fieldKind, autoCol, dbo)
       IN  /\ last' = Called("Exec", row, r)
           /\ rowID' = r.field
    /\ UNCHANGED << args, buildVars, rcmd, autoCol, fieldKind, queryVars >>

RowUpdateExec(row, dbo) ==
    /\ rcmd.kind = "UpdateRowf"
    /\ last' = Called("Exec", row, updateExec(rcmd, row, rowID, dbo))
    /\ UNCHANGED << args, buildVars, rcmd, autoCol, fieldKind, rowID, queryVars >>

NextRow ==
    \/ \E row \in Rows : RowArgs(row)
    \/ \E row \in Rows, dbo \in DbAnswers : RowInsertExec(row, dbo)
    \/ \E row \in Rows, dbo \in DbUpdateAnswers : RowUpdateExec(row, dbo)

SpecRow == InitRow /\ [][NextRow]_vars

\* C3: on a table with an auto-increment column, an insert that does not
\* set that column and succeeds with a reported generated key leaves the key
\* in the row's auto-increment field; an insert that sets the column itself
\* never calls LastInsertId and never writes the row.
C3_AutoIncrementWriteBack ==
    (/\ rcmd.kind = "InsertRowf" /\ rcmd.table # NoTable /\ autoCol # 0
     /\ last.op = "Exec")
    => /\ (/\ ~AutoIncInserted(rcmd, autoCol)
           /\ last.outcome = "ok" /\ last.key # NoKey) => rowID = last.key
       /\ AutoIncInserted(rcmd, autoCol) => (~last.lastId /\ rowID = last.before)

\* C4: Args on a row whose dereferenced type is not the table's row type
\* (nil and nil-pointer rows included) returns the type-mismatch error and a
\* nil argument list, and ends in no other way.
WrongType(row) == row.base # RowType \/ row.isNil
C4_ArgsTypeMismatch ==
    (last.op = "Args" /\ rcmd.table # NoTable /\ WrongType(last.row))
    => /\ last.outcome = "error"
       /\ last.err = Err("type", RowType)
       /\ last.args = << >>

\* C9: a row command built without a TableName of the builder's clause has
\* no table, and every Args and Exec call on it returns the configuration
\* error without calling the database.
NoRequiredTable ==
    \A i \in DOMAIN args :
        ~(args[i].kind = "TableName" /\ args[i].clause = TableClause(rcmd.kind))
C9_TableNotSpecified ==
    NoRequiredTable
    => /\ rcmd.table = NoTable
       /\ last.op \in { "Args", "Exec" }
            => /\ last.outcome = "error"
               /\ last.err = Err("config", "table not specified")
               /\ ~last.db

\* C10: an insert that executed with a write-back pending and whose
\* LastInsertId failed returns no error and leaves the auto-increment field
\* as it was.
C10_LastInsertIdErrorSwallowed ==
    (/\ rcmd.kind = "InsertRowf" /\ last.op = "Exec"
     /\ last.db /\ last.lastId /\ last.key = NoKey)
    => /\ last.outcome = "ok"
       /\ last.err = NoErr
       /\ rowID = last.before

\* An insert through a pointer to a row whose field already holds a key,
\* executed by the database, whose LastInsertId then failed.
C10_Witness ==
    /\ rcmd.kind = "InsertRowf" /\ last.op = "Exec"
    /\ last.db /\ last.lastId /\ last.key = NoKey
    /\ last.outcome = "ok"
    /\ last.before # 0 /\ rowID = last.before
    /\ Len(last.args) > 0

\* ---------------------------------------------------- query commands
\* A literal SQL string, as a text.
Literal(str) == << [kind |-> "Literal", clause |-> "", text |-> str, cols |-> << >>,
                    ph |-> 0] >>

\* The query string sqlx.Select is given by queryCommand.Select, and one a
\* caller of the adapter might pass.
Unused == Literal("unused")
OtherQuery == Literal("select 1")

\* The arguments a caller passes to a query.
CallArgs == << "a", "b" >>

FieldNameOf(ci) == Columns[ci.col].fieldName

\* getMapper's loop over cmd.columns: the error for the first column whose
\* field name an earlier column already has.
DupIndexes(cols) ==
    { k \in 1 .. Len(cols) :
        \E j \in 1 .. (k - 1) : FieldNameOf(cols[j]) = FieldNameOf(cols[k]) }

\* A getMapper that does not look for repeated field names.
getMapperUnchecked(cols) == NoErr

getMapperError(cols) ==
    IF DupIndexes(cols) = {} THEN NoErr
    ELSE Err("multiple fields named", FieldNameOf(cols[Min(DupIndexes(cols))]))

\* A queryer.Query that sends the query string it is given.
queryerQueryGiven(cmd, query) == query

\* The text queryer.Query sends: q.cmd.Command(), whatever query is.
queryerQuery(cmd, query) == Command(cmd)

\* The calls on a query command: its own methods, and the adapter's
\* Queryx and QueryRowx, which go through the command's Query and QueryRow.
MapperOps == { "Query", "QueryRow", "Select", "queryer.Queryx", "queryer.QueryRowx" }
RowOps == { "QueryRow", "queryer.QueryRowx" }

\* The query string the call carries (ignored by every method).
QueryOf(op) ==
    IF op = "Select" THEN Unused
    ELSE IF op \in { "queryer.Queryx", "queryer.QueryRowx", "queryer.Query" }
    THEN OtherQuery ELSE << >>

\* queryer.QueryRowx passes args, not args..., on to QueryRow.
NArgsOf(op) == IF op = "queryer.QueryRowx" THEN 1 ELSE Len(CallArgs)

PrevErr(c) ==
    IF c.op \in { "Query", "Select" } /\ c.outcome = "error" THEN c.err
    ELSE IF c.op = "none" THEN NoErr ELSE c.prevErr

\* The call ends after getMapper returned mapper m: the statement goes to
\* the database, which answers with rows or with an error.
Sent(op, m, dbok) ==
    [op |-> op,
     outcome |-> IF dbok \/ op \in RowOps THEN "ok" ELSE "error",
     err |-> IF dbok \/ op \in RowOps THEN NoErr ELSE Err("db", "query"),
     db |-> TRUE, text |-> Command(qcmd), query |-> QueryOf(op),
     nargs |-> NArgsOf(op), mapper |-> m, prevErr |-> PrevErr(qlast)]

\* The call ends on getMapper's error: Query returns it (and so do Select
\* and queryer.Queryx), QueryRow panics with it.
Failed(op, err) ==
    [op |-> op,
     outcome |-> IF op \in RowOps THEN "panic" ELSE "error",
     err |-> err, db |-> FALSE, text |-> << >>, query |-> QueryOf(op),
     nargs |-> NArgsOf(op), mapper |-> 0, prevErr |-> PrevErr(qlast)]

QueryPool ==
    { ColumnListD("SelectColumns", {1, 2}),
      ColumnListD("SelectColumns", {2, 3}),
      ColumnListD("UpdateWhere", {1}) }

InitQuery ==
    /\ args \in SeqsUpTo(QueryPool, MaxArgs)
    /\ LET c == Build("Queryf", args, 1)
       IN  qcmd = [command |-> c.command, columns |-> c.columns, inputs |-> c.inputs,
                   mapper |-> 0]
    /\ tpc = [t \in Threads |-> "idle"]
    /\ constructed = 0
    /\ qlast = NoQuery
    /\ BuildIdle /\ RowIdle

\* A call enters getMapper and reads cmd.mapper: set, the call uses it and
\* goes to the database; nil, the call goes on to build one.
QueryCall(t, op, dbok) ==
    /\ tpc[t] = "idle"
    /\ IF qcmd.mapper # 0
       THEN /\ qlast' = Sent(op, qcmd.mapper, dbok)
            /\ UNCHANGED tpc
       ELSE /\ tpc' = [tpc EXCEPT ![t] = op]
            /\ UNCHANGED qlast
    /\ UNCHANGED << args, buildVars, rowVars, qcmd, constructed >>

\* The call, having read a nil cmd.mapper, runs the rest of getMapper: the
\* loop over the columns, then reflectx.NewMapperFunc and the store.
QueryBuildMapper(t, dbok) ==
    /\ tpc[t] # "idle"
    /\ LET err == getMapperError(qcmd.columns)
       IN  IF err # NoErr
           THEN /\ qlast' = Failed(tpc[t], err)
                /\ UNCHANGED << qcmd, constructed >>
           ELSE /\ constructed' = constructed + 1
                /\ qcmd' = [qcmd EXCEPT !.mapper = t]
                /\ qlast' = Sent(tpc[t], t, dbok)
    /\ tpc' = [tpc EXCEPT ![t] = "idle"]
    /\ UNCHANGED << args, buildVars, rowVars >>

\* queryer.Query: straight to the database, no mapper.
QueryerQuery(t, query, dbok) ==
    /\ tpc[t] = "idle"
    /\ qlast' = [op |-> "queryer.Query",
                 outcome |-> IF dbok THEN "ok" ELSE "error",
                 err |-> IF dbok THEN NoErr ELSE Err("db", "query"),
                 db |-> TRUE, text |-> queryerQuery(qcmd, query), query |-> query,
                 nargs |-> Len(CallArgs), mapper |-> 0, prevErr |-> PrevErr(qlast)]
    /\ UNCHANGED << args, buildVars, rowVars, qcmd, tpc, constructed >>

NextQuery ==
    \/ \E t \in Threads, op \in MapperOps, dbok \in BOOLEAN : QueryCall(t, op, dbok)
    \/ \E t \in Threads, dbok \in BOOLEAN : QueryBuildMapper(t, dbok)
    \/ \E t \in Threads, query \in { Unused, OtherQuery }, dbok \in BOOLEAN :
          QueryerQuery(t, query, dbok)

SpecQuery == InitQuery /\ [][NextQuery]_vars

\* C2: the field mapper of one query command is constructed at most once,
\* whatever calls run and however they interleave on first use.
C2_MapperBuiltOnce == constructed <= 1

\* Two output columns of the command have the same struct field name.
HasDuplicateField ==
    \E i, j \in 1 .. Len(qcmd.columns) :
        i < j /\ FieldNameOf(qcmd.columns[i]) = FieldNameOf(qcmd.columns[j])

\* C5: on a query command with two output columns of the same field name,
\* every Query and Select call fails with the ambiguity error, the same one
\* as the failed calls before it, and does not reach the database.
C5_AmbiguousFieldsRejected ==
    (HasDuplicateField /\ qlast.op \in { "Query", "Select" })
    => /\ qlast.outcome = "error"
       /\ qlast.err.kind = "multiple fields named"
       /\ \E i, j \in 1 .. Len(qcmd.columns) :
             /\ i < j
             /\ FieldNameOf(qcmd.columns[i]) = qlast.err.name
             /\ FieldNameOf(qcmd.columns[j]) = qlast.err.name
       /\ ~qlast.db
       /\ qlast.prevErr # NoErr => qlast.err = qlast.prevErr

\* A Select that fails with the ambiguity error after an earlier Query or
\* Select on the same command failed.
C5_Witness ==
    /\ HasDuplicateField
    /\ qlast.op = "Select" /\ qlast.outcome = "error"
    /\ qlast.prevErr # NoErr
    /\ ~qlast.db

\* C7: the command's text stays the text its build fixed, and every call
\* that reaches the database sends that text, whatever query string the
\* adapter's method was given.
C7_StoredTextSent ==
    /\ Command(qcmd) = Build("Queryf", args, 1).command
    /\ qlast.db => qlast.text = Command(qcmd)

\* The adapter's Query was given another query string and the database
\* was sent the command's text, after a mapper had been stored.
C7_Witness ==
    /\ qlast.op = "queryer.Query" /\ qlast.db
    /\ qlast.query = OtherQuery
    /\ qlast.text = Command(qcmd) /\ qlast.text # qlast.query
    /\ qcmd.mapper # 0

\* C8: QueryRow returns a row and never fails at call time.
C8_QueryRowNeverFails ==
    qlast.op \in RowOps => qlast.outcome = "ok"

====
